---------------------------- MODULE Spec2Model ----------------------------
(***************************************************************************)
(* beacon-metrics-gazer: a poll task fetches the beacon state, extracts    *)
(* the previous-epoch participation flags, aggregates them over named      *)
(* validator-index ranges and publishes one gauge per range label; a       *)
(* metrics server answers scrape requests from the same gauge registry.    *)
(*                                                                         *)
(* The module holds four state machines over one set of variables:         *)
(*   Spec / FairSpec : the process of main.rs (startup, poll task, server) *)
(*   AggSpec         : group_target_participation as a pure function       *)
(*   ResolveSpec     : the fork resolver (spec section 4.1)                *)
(*   ExtractSpec     : the offset navigator (spec section 4.2)             *)
(* `machine` says which one a behaviour belongs to.                        *)
(***************************************************************************)
EXTENDS Integers, Sequences, FiniteSets

VARIABLES
    machine,          \* "main" | "agg" | "resolve" | "extract"
    \* ---- fn main (main.rs 135-189)
    mainPc,           \* position of main
    cli,              \* Cli: which of --ranges / --ranges-file are given, --dump
    ranges,           \* IndexRanges = Vec<(String, Range<usize>)>
    startErr,         \* the error main returned with, "none" while there is none
    \* ---- the spawned poll task (main.rs 159-175)
    pollPc,           \* position of the poll task
    state_buf,        \* bytes returned by the state fetch (valid encoding or not)
    state,            \* StatePartial.previous_epoch_participation
    participation_by_range,   \* ParticipationByRange of this iteration
    pubIdx,           \* position of the for loop of set_participation_to_metrics
    iterOutcome,      \* "running" | "ok" | "err" | "panic_file" | "panic_range"
    \* ---- the prometheus registry shared by the poll task and the server
    gauges,           \* label -> gauge value (Absent until first set)
    \* ---- history of the current iteration (not program state)
    iterStartGauges,  \* gauges when the iteration started
    writes,           \* set_gauge calls of the iteration, in order
    \* ---- the metrics server (main.rs 50-61, 178-186)
    scrapePc,         \* "no_server" | "idle" | "pending" | "answered"
    response,         \* body of the last response
    \* ---- the pure-function machines
    fnPc,             \* "off" | "input" | "done"
    fnIn,             \* the arguments
    fnOut             \* the result

vars == <<machine, mainPc, cli, ranges, startErr, pollPc, state_buf, state,
          participation_by_range, pubIdx, iterOutcome, gauges, iterStartGauges,
          writes, scrapePc, response, fnPc, fnIn, fnOut>>

mainVars == <<mainPc, cli, ranges, startErr>>
pollVars == <<pollPc, state_buf, state, participation_by_range, pubIdx,
              iterOutcome, gauges, iterStartGauges, writes>>
scrapeVars == <<scrapePc, response>>
fnVars == <<fnPc, fnIn, fnOut>>

-----------------------------------------------------------------------------
(* Bounds of the model *)

\* longest flag sequence (validator registry size) the inputs enumerate
MaxFlagsLen == 2
\* greatest start / end of an enumerated index range
MaxIndex == 2
\* longest enumerated list of index ranges
MaxRanges == 2

-----------------------------------------------------------------------------
(* Values *)

Absent == <<>>          \* a label the gauge vector holds no child for
NaN == <<0, 0>>         \* f32 0.0 / 0.0
Infinity == <<1, 0>>    \* f32 x / 0.0, x > 0

Labels == {"a", "b"}

\* an element of IndexRanges: (range_name, start..end)
IndexRange(name, start, end) == [name |-> name, start |-> start, end |-> end]

RECURSIVE Gcd(_, _)
Gcd(a, b) == IF b = 0 THEN a ELSE Gcd(b, a % b)

\* `count as f32 / len as f32` (main.rs 101): the quotient as a value, so that
\* 1/2 and 2/4 are the same ratio; 0/0 is NaN.  A ratio is <<num, den>> in
\* lowest terms.  The later `as f64` (main.rs 109) is exact on every f32.
F32Div(count, len) ==
    IF len = 0
      THEN (IF count = 0 THEN NaN ELSE Infinity)
      ELSE <<count \div Gcd(count, len), len \div Gcd(count, len)>>

-----------------------------------------------------------------------------
(* main.rs 81-91: the participation flag test *)

TIMELY_TARGET_FLAG_INDEX == 1

RECURSIVE Shl(_, _)
Shl(x, n) == IF n = 0 THEN x % 256 ELSE Shl((2 * x) % 256, n - 1)

TIMELY_TARGET == Shl(1, TIMELY_TARGET_FLAG_INDEX)

RECURSIVE BitAnd(_, _)
BitAnd(a, b) ==
    IF a = 0 \/ b = 0 THEN 0
    ELSE (a % 2) * (b % 2) + 2 * BitAnd(a \div 2, b \div 2)

\* a has_flag that tests for equality with the mask instead of containment
has_flag_exact(flag, mask) == flag = mask

has_flag(flag, mask) == BitAnd(flag, mask) = mask

-----------------------------------------------------------------------------
(* main.rs 93-105: group_target_participation *)

\* `flags[range]`: the slice index of a Range<usize> panics when start > end
\* or end > len
SliceOk(flags, r) == r.start <= r.end /\ r.end <= Len(flags)

RECURSIVE SumFlags(_, _, _)
\* .iter().map(|f| has_flag(*f, TIMELY_TARGET) as u32).sum() over flags[lo+1..hi]
SumFlags(flags, lo, hi) ==
    IF lo >= hi THEN 0
    ELSE (IF has_flag(flags[lo + 1], TIMELY_TARGET) THEN 1 ELSE 0)
         + SumFlags(flags, lo + 1, hi)

\* the closure of the map: one (range_name, range, target_ratio)
RangeEntry(flags, r) ==
    [name |-> r.name, start |-> r.start, end |-> r.end,
     ratio |-> F32Div(SumFlags(flags, r.start, r.end), r.end - r.start)]

\* a group_target_participation that clamps the range to the slice and never
\* panics
group_target_participation_clamp(rs, flags) ==
    [kind |-> "ok",
     report |-> [i \in 1..Len(rs) |->
        LET r == rs[i]
            hi == IF r.end <= Len(flags) THEN r.end ELSE Len(flags)
            lo == IF r.start <= hi THEN r.start ELSE hi
        IN  [name |-> r.name, start |-> r.start, end |-> r.end,
             ratio |-> F32Div(SumFlags(flags, lo, hi), hi - lo)]]]

\* the whole function: the ranges are mapped in order and the first slice
\* that panics unwinds the caller; there is no error value in the return type
group_target_participation(rs, flags) ==
    IF \A i \in 1..Len(rs) : SliceOk(flags, rs[i])
      THEN [kind |-> "ok",
            report |-> [i \in 1..Len(rs) |-> RangeEntry(flags, rs[i])]]
      ELSE [kind |-> "panic",
            at |-> CHOOSE i \in 1..Len(rs) :
                     /\ ~SliceOk(flags, rs[i])
                     /\ \A j \in 1..(i - 1) : SliceOk(flags, rs[j])]

-----------------------------------------------------------------------------
(* Inputs of the process *)

SeqsUpTo(S, n) == UNION {[1..k -> S] : k \in 0..n}

\* flag bytes a fetched state holds: no flag, target only, source and target
PollFlagBytes == {0, 2, 3}

\* what the state fetch can return: bytes that decode to a flag sequence, or
\* bytes deserialize_partial_state rejects
FetchedBuffers ==
    {[valid |-> TRUE, flags |-> f] : f \in SeqsUpTo(PollFlagBytes, MaxFlagsLen)}
    \cup {[valid |-> FALSE, flags |-> <<>>]}

NoBuffer == [valid |-> FALSE, flags |-> <<>>]

\* what parse_ranges can return: disjoint ranges, one label twice with
\* overlapping ranges, an empty range, a reversed range, no range, one range
ParsedRanges ==
    { <<IndexRange("a", 0, 1), IndexRange("b", 1, MaxIndex)>>,
      <<IndexRange("a", 0, 1), IndexRange("a", 0, MaxIndex)>>,
      <<IndexRange("a", 0, 1), IndexRange("b", 1, 1)>>,
      <<IndexRange("a", 0, 1), IndexRange("b", MaxIndex, 1)>>,
      <<IndexRange("b", 0, MaxIndex)>>,
      <<>> }

CliArgs == [ranges : BOOLEAN, ranges_file : BOOLEAN, dump : BOOLEAN]

NoGauges == [l \in Labels |-> Absent]

\* a response: its status and the gauge values of its body
NoResponse == [status |-> 0, body |-> NoGauges]
OkResponse(g) == [status |-> 200, body |-> g]

\* the process is gone once main has returned or panicked
ProcessAlive == mainPc \notin {"exited_err", "panicked"}

-----------------------------------------------------------------------------
(* fn main, main.rs 135-155: startup *)

InitMain ==
    /\ machine = "main"
    /\ mainPc = "ranges_str"
    /\ cli \in CliArgs
    /\ ranges = <<>>
    /\ startErr = "none"
    /\ pollPc = "not_started"
    /\ state_buf = NoBuffer
    /\ state = <<>>
    /\ participation_by_range = <<>>
    /\ pubIdx = 0
    /\ iterOutcome = "running"
    /\ gauges = NoGauges
    /\ iterStartGauges = NoGauges
    /\ writes = <<>>
    /\ scrapePc = "no_server"
    /\ response = NoResponse
    /\ fnPc = "off"
    /\ fnIn = <<>>
    /\ fnOut = <<>>

\* `return Err(..)` / `?` of main: the process ends with that error
ExitWith(err) ==
    /\ mainPc' = "exited_err"
    /\ startErr' = err

\* main.rs 140-146
RangesStr ==
    /\ machine = "main" /\ mainPc = "ranges_str"
    /\ IF cli.ranges
         THEN mainPc' = "parse_ranges" /\ startErr' = startErr
         ELSE IF cli.ranges_file
           THEN \/ mainPc' = "parse_ranges" /\ startErr' = startErr
                \/ ExitWith("resolve_path_or_url")
           ELSE ExitWith("no_ranges_arg")
    /\ UNCHANGED <<machine, cli, ranges, pollVars, scrapeVars, fnVars>>

\* main.rs 147
ParseRanges ==
    /\ machine = "main" /\ mainPc = "parse_ranges"
    /\ \/ \E rs \in ParsedRanges :
            /\ ranges' = rs
            /\ mainPc' = "fetch_genesis"
            /\ startErr' = startErr
       \/ ExitWith("parse_ranges") /\ ranges' = ranges
    /\ UNCHANGED <<machine, cli, pollVars, scrapeVars, fnVars>>

\* main.rs 151
FetchGenesis ==
    /\ machine = "main" /\ mainPc = "fetch_genesis"
    /\ \/ mainPc' = "fetch_config" /\ startErr' = startErr
       \/ ExitWith("fetch_genesis")
    /\ UNCHANGED <<machine, cli, ranges, pollVars, scrapeVars, fnVars>>

\* a fetch_config whose error is recorded and then ignored
FetchConfig_ignore ==
    /\ machine = "main" /\ mainPc = "fetch_config"
    /\ \/ mainPc' = "spawn" /\ startErr' = startErr
       \/ mainPc' = "spawn" /\ startErr' = "fetch_config"
    /\ UNCHANGED <<machine, cli, ranges, pollVars, scrapeVars, fnVars>>

\* main.rs 154
FetchConfig ==
    /\ machine = "main" /\ mainPc = "fetch_config"
    /\ \/ mainPc' = "spawn" /\ startErr' = startErr
       \/ ExitWith("fetch_config")
    /\ UNCHANGED <<machine, cli, ranges, pollVars, scrapeVars, fnVars>>

\* main.rs 159: tokio::spawn of the poll task
SpawnPoll ==
    /\ machine = "main" /\ mainPc = "spawn"
    /\ mainPc' = "bind"
    /\ pollPc' = "fetch"
    /\ UNCHANGED <<machine, cli, ranges, startErr, state_buf, state,
                   participation_by_range, pubIdx, iterOutcome, gauges,
                   iterStartGauges, writes, scrapeVars, fnVars>>

\* main.rs 178-181: Server::bind panics when the address cannot be bound
BindServer ==
    /\ machine = "main" /\ mainPc = "bind"
    /\ \/ mainPc' = "serving" /\ scrapePc' = "idle"
       \/ mainPc' = "panicked" /\ scrapePc' = scrapePc
    /\ UNCHANGED <<machine, cli, ranges, startErr, pollVars, response, fnVars>>

-----------------------------------------------------------------------------
(* main.rs 159-175: the poll task *)

PollRuns == machine = "main" /\ ProcessAlive

\* main.rs 68-73: send().await? and bytes().await?
FetchState ==
    /\ PollRuns /\ pollPc = "fetch"
    /\ \/ \E b \in FetchedBuffers :
            /\ state_buf' = b
            /\ pollPc' = "write_file"
            /\ iterOutcome' = iterOutcome
       \/ \* a network error: logged at main.rs 169
          /\ pollPc' = "sleep"
          /\ iterOutcome' = "err"
          /\ state_buf' = state_buf
    /\ UNCHANGED <<machine, mainVars, state, participation_by_range, pubIdx,
                   gauges, iterStartGauges, writes, scrapeVars, fnVars>>

\* the request never completes: reqwest is given no timeout
FetchHangs ==
    /\ PollRuns /\ pollPc = "fetch"
    /\ pollPc' = "fetch_hung"
    /\ UNCHANGED <<machine, mainVars, state_buf, state, participation_by_range,
                   pubIdx, iterOutcome, gauges, iterStartGauges, writes,
                   scrapeVars, fnVars>>

\* main.rs 75-76: File::create(..).unwrap() and write_all(..).unwrap()
WriteStateFile ==
    /\ PollRuns /\ pollPc = "write_file"
    /\ \/ pollPc' = "decode" /\ iterOutcome' = iterOutcome
       \/ pollPc' = "panicked" /\ iterOutcome' = "panic_file"
    /\ UNCHANGED <<machine, mainVars, state_buf, state, participation_by_range,
                   pubIdx, gauges, iterStartGauges, writes, scrapeVars, fnVars>>

\* main.rs 78: deserialize_partial_state(config, &state_buf)?
DecodeState ==
    /\ PollRuns /\ pollPc = "decode"
    /\ IF state_buf.valid
         THEN /\ state' = state_buf.flags
              /\ pollPc' = "aggregate"
              /\ iterOutcome' = iterOutcome
         ELSE /\ state' = state
              /\ pollPc' = "sleep"
              /\ iterOutcome' = "err"
    /\ state_buf' = NoBuffer
    /\ UNCHANGED <<machine, mainVars, participation_by_range, pubIdx, gauges,
                   iterStartGauges, writes, scrapeVars, fnVars>>

\* an aggregation that publishes each ratio as soon as it is computed, so the
\* ranges before a failing one are already written when the slice panics
Aggregate_streaming ==
    /\ PollRuns /\ pollPc = "aggregate"
    /\ LET r == group_target_participation(ranges, state)
       IN  IF r.kind = "ok"
             THEN /\ participation_by_range' = r.report
                  /\ pollPc' = "publish"
                  /\ pubIdx' = 1
                  /\ iterOutcome' = iterOutcome
                  /\ gauges' = gauges
                  /\ writes' = writes
             ELSE /\ participation_by_range' = participation_by_range
                  /\ pollPc' = "panicked"
                  /\ pubIdx' = pubIdx
                  /\ iterOutcome' = "panic_range"
                  /\ gauges' = [l \in Labels |->
                        IF \E k \in 1..(r.at - 1) : ranges[k].name = l
                          THEN RangeEntry(state, ranges[
                                 CHOOSE k \in 1..(r.at - 1) :
                                   /\ ranges[k].name = l
                                   /\ \A j \in (k + 1)..(r.at - 1) :
                                        ranges[j].name # l]).ratio
                          ELSE gauges[l]]
                  /\ writes' = [k \in 1..(r.at - 1) |->
                        <<ranges[k].name, RangeEntry(state, ranges[k]).ratio>>]
    /\ UNCHANGED <<machine, mainVars, state_buf, state, iterStartGauges,
                   scrapeVars, fnVars>>

\* main.rs 163
Aggregate ==
    /\ PollRuns /\ pollPc = "aggregate"
    /\ LET r == group_target_participation(ranges, state)
       IN  IF r.kind = "ok"
             THEN /\ participation_by_range' = r.report
                  /\ pollPc' = "publish"
                  /\ pubIdx' = 1
                  /\ iterOutcome' = iterOutcome
             ELSE /\ participation_by_range' = participation_by_range
                  /\ pollPc' = "panicked"
                  /\ pubIdx' = pubIdx
                  /\ iterOutcome' = "panic_range"
    /\ UNCHANGED <<machine, mainVars, state_buf, state, gauges, iterStartGauges,
                   writes, scrapeVars, fnVars>>

\* metrics::set_gauge: one atomic store into the gauge of that label
set_gauge(g, label, value) == [g EXCEPT ![label] = value]

\* a loop body that publishes the first entry's ratio under every label
SetParticipationStep_first ==
    /\ PollRuns /\ pollPc = "publish"
    /\ pubIdx <= Len(participation_by_range)
    /\ LET e == participation_by_range[pubIdx]
           v == participation_by_range[1].ratio
       IN  /\ gauges' = set_gauge(gauges, e.name, v)
           /\ writes' = Append(writes, <<e.name, v>>)
    /\ pubIdx' = pubIdx + 1
    /\ UNCHANGED <<machine, mainVars, pollPc, state_buf, state,
                   participation_by_range, iterOutcome, iterStartGauges,
                   scrapeVars, fnVars>>

\* a loop body that clears the gauge of the label before it sets it
SetParticipationStep_reset ==
    /\ PollRuns /\ pollPc = "publish"
    /\ pubIdx <= Len(participation_by_range)
    /\ LET e == participation_by_range[pubIdx]
       IN  \/ /\ gauges[e.name] # Absent
              /\ gauges' = set_gauge(gauges, e.name, Absent)
              /\ UNCHANGED <<writes, pubIdx>>
           \/ /\ gauges' = set_gauge(gauges, e.name, e.ratio)
              /\ writes' = Append(writes, <<e.name, e.ratio>>)
              /\ pubIdx' = pubIdx + 1
    /\ UNCHANGED <<machine, mainVars, pollPc, state_buf, state,
                   participation_by_range, iterOutcome, iterStartGauges,
                   scrapeVars, fnVars>>

\* main.rs 108-110: one turn of the for loop
SetParticipationStep ==
    /\ PollRuns /\ pollPc = "publish"
    /\ pubIdx <= Len(participation_by_range)
    /\ LET e == participation_by_range[pubIdx]
       IN  /\ gauges' = set_gauge(gauges, e.name, e.ratio)
           /\ writes' = Append(writes, <<e.name, e.ratio>>)
    /\ pubIdx' = pubIdx + 1
    /\ UNCHANGED <<machine, mainVars, pollPc, state_buf, state,
                   participation_by_range, iterOutcome, iterStartGauges,
                   scrapeVars, fnVars>>

\* main.rs 108, 165: the loop ends; the dump follows when --dump is set
SetParticipationDone ==
    /\ PollRuns /\ pollPc = "publish"
    /\ pubIdx > Len(participation_by_range)
    /\ pollPc' = IF cli.dump THEN "dump" ELSE "sleep"
    /\ iterOutcome' = IF cli.dump THEN iterOutcome ELSE "ok"
    /\ UNCHANGED <<machine, mainVars, state_buf, state, participation_by_range,
                   pubIdx, gauges, iterStartGauges, writes, scrapeVars, fnVars>>

\* main.rs 113-132, 166
DumpParticipation ==
    /\ PollRuns /\ pollPc = "dump"
    /\ pollPc' = "sleep"
    /\ iterOutcome' = "ok"
    /\ UNCHANGED <<machine, mainVars, state_buf, state, participation_by_range,
                   pubIdx, gauges, iterStartGauges, writes, scrapeVars, fnVars>>

\* main.rs 173 and the loop of 160: the next iteration starts with nothing
\* kept of the last one but the registry
SleepThenLoop ==
    /\ PollRuns /\ pollPc = "sleep"
    /\ pollPc' = "fetch"
    /\ state_buf' = NoBuffer
    /\ state' = <<>>
    /\ participation_by_range' = <<>>
    /\ pubIdx' = 0
    /\ iterOutcome' = "running"
    /\ iterStartGauges' = gauges
    /\ writes' = <<>>
    /\ UNCHANGED <<machine, mainVars, gauges, scrapeVars, fnVars>>

-----------------------------------------------------------------------------
(* main.rs 50-61, 178-186: the metrics server *)

\* a scrape request reaches the bound server
ScrapeArrives ==
    /\ machine = "main" /\ mainPc = "serving" /\ scrapePc = "idle"
    /\ scrapePc' = "pending"
    /\ response' = NoResponse
    /\ UNCHANGED <<machine, mainVars, pollVars, fnVars>>

\* prometheus::gather() and the text encoding: the body holds the value of
\* every label that has one
gather(g) == g

\* a responder that answers only between two poll iterations
handle_request_waits ==
    /\ machine = "main" /\ mainPc = "serving" /\ scrapePc = "pending"
    /\ pollPc = "sleep"
    /\ response' = OkResponse(gather(gauges))
    /\ scrapePc' = "answered"
    /\ UNCHANGED <<machine, mainVars, pollVars, fnVars>>

\* main.rs 50-61
handle_request ==
    /\ machine = "main" /\ mainPc = "serving" /\ scrapePc = "pending"
    /\ response' = OkResponse(gather(gauges))
    /\ scrapePc' = "answered"
    /\ UNCHANGED <<machine, mainVars, pollVars, fnVars>>

\* the client has its response; the connection serves the next request
ScrapeDone ==
    /\ machine = "main" /\ mainPc = "serving" /\ scrapePc = "answered"
    /\ scrapePc' = "idle"
    /\ UNCHANGED <<machine, mainVars, pollVars, response, fnVars>>

Next ==
    \/ RangesStr
    \/ ParseRanges
    \/ FetchGenesis
    \/ FetchConfig
    \/ SpawnPoll
    \/ BindServer
    \/ FetchState
    \/ FetchHangs
    \/ WriteStateFile
    \/ DecodeState
    \/ Aggregate
    \/ SetParticipationStep
    \/ SetParticipationDone
    \/ DumpParticipation
    \/ SleepThenLoop
    \/ ScrapeArrives
    \/ handle_request
    \/ ScrapeDone

Init == InitMain

Spec == Init /\ [][Next]_vars

\* the tokio runtime polls a ready task: the responder and the steps of the
\* poll task that do not wait on the network are taken once they can be
FairSpec ==
    /\ Init
    /\ [][Next]_vars
    /\ WF_vars(handle_request)
    /\ WF_vars(ScrapeDone)
    /\ WF_vars(DecodeState)
    /\ WF_vars(Aggregate)
    /\ WF_vars(SetParticipationStep)
    /\ WF_vars(SetParticipationDone)
    /\ WF_vars(DumpParticipation)
    /\ WF_vars(SleepThenLoop)

-----------------------------------------------------------------------------
(* Properties of the process *)

IterationFailed == iterOutcome \in {"err", "panic_file", "panic_range"}

\* C1: an iteration that fails at any step (fetch, state file, decode, range
\* aggregation) changes no gauge: every label holds the value it held when the
\* iteration started and no set_gauge was called; and a scrape request that
\* is pending then can be answered at once, with a body.
C1_FailedIterationKeepsGauges ==
    /\ (machine = "main" /\ IterationFailed) =>
          /\ gauges = iterStartGauges
          /\ writes = <<>>
          /\ (scrapePc = "pending" => ENABLED handle_request)
    /\ (machine = "main" /\ scrapePc = "answered") => response.status = 200

\* a range failure ended the iteration, an earlier iteration had published,
\* and a scrape was answered afterwards with the values still published
C1_Witness ==
    /\ machine = "main"
    /\ iterOutcome = "panic_range"
    /\ gauges # NoGauges
    /\ scrapePc = "answered"
    /\ response.body = gauges

\* C2 (as claimed): no failure of the range aggregation ends the poll task:
\* the step after the aggregation is the publication or the sleep before the
\* next iteration.
C2_AggregationNeverEndsPollTask ==
    [][(machine = "main" /\ pollPc = "aggregate")
         => pollPc' \in {"aggregate", "publish", "sleep"}]_vars

\* the values set for label l so far in this iteration, in order of the loop
SetSoFar(l) ==
    {k \in 1..(pubIdx - 1) :
        k <= Len(participation_by_range) /\ participation_by_range[k].name = l}

\* the value the registry must hold for l: that of the last set_gauge of this
\* iteration on l, or the value from before the iteration
LastWriteWins(l) ==
    IF SetSoFar(l) = {} THEN iterStartGauges[l]
    ELSE participation_by_range[
           CHOOSE k \in SetSoFar(l) : \A j \in SetSoFar(l) : j <= k].ratio

\* C6: a scrape that reads the registry while the poll task publishes sees,
\* for every label, the value from before the iteration or a ratio the
\* iteration has set for that label, never anything else; and the registry
\* holds for every label the value of the last write to it.
C6_ReadersSeeWholeValues ==
    /\ [][(machine = "main" /\ scrapePc = "pending" /\ scrapePc' = "answered")
           => \A l \in Labels :
                response'.body[l] \in
                  {iterStartGauges[l]}
                  \cup {participation_by_range[k].ratio : k \in SetSoFar(l)}]_vars
    /\ [](machine = "main" => \A l \in Labels : gauges[l] = LastWriteWins(l))

\* a scrape answered in the middle of a publication: one label already holds
\* this iteration's ratio, a later range is still to be published
C6_Witness ==
    /\ machine = "main"
    /\ pollPc = "publish"
    /\ pubIdx = 2
    /\ Len(participation_by_range) = 2
    /\ scrapePc = "answered"
    /\ response.body = gauges
    /\ gauges # iterStartGauges
    /\ iterStartGauges # NoGauges

\* C7: when a startup step fails, main has returned that error: the poll task
\* was never spawned, no gauge was ever written, no server was bound, and
\* nothing runs afterwards.
C7_StartupFailureIsFatal ==
    /\ (machine = "main" /\ startErr # "none") =>
          /\ mainPc = "exited_err"
          /\ pollPc = "not_started"
          /\ gauges = NoGauges
          /\ writes = <<>>
          /\ scrapePc = "no_server"
    /\ (machine = "main" /\ mainPc = "exited_err") =>
          /\ startErr \in {"no_ranges_arg", "resolve_path_or_url",
                           "parse_ranges", "fetch_genesis", "fetch_config"}
          /\ ~ENABLED Next

\* the last startup step failed
C7_Witness ==
    /\ machine = "main"
    /\ mainPc = "exited_err"
    /\ startErr = "fetch_config"
    /\ ranges # <<>>

\* the number of flags with bit 1 set among flags[start+1 .. end]
TargetCount(flags, r) ==
    Cardinality({i \in (r.start + 1)..r.end : (flags[i] \div 2) % 2 = 1})

PollOrder ==
    {<<"not_started", "fetch">>, <<"fetch", "write_file">>, <<"fetch", "sleep">>,
     <<"fetch", "fetch_hung">>, <<"write_file", "decode">>,
     <<"write_file", "panicked">>, <<"decode", "aggregate">>,
     <<"decode", "sleep">>, <<"aggregate", "publish">>,
     <<"aggregate", "panicked">>, <<"publish", "dump">>, <<"publish", "sleep">>,
     <<"dump", "sleep">>, <<"sleep", "fetch">>}

\* C10: the steps of an iteration run in the order fetch, decode, aggregate,
\* publish, dump; no gauge is written before the report holds the ratio of
\* every range; a successful iteration has called set_gauge exactly once per
\* range, in the ranges' order, with the ratio of that range over this
\* iteration's flags, and a label shared by two ranges keeps the later ratio.
C10_PublishAfterAllRatios ==
    /\ [][(machine = "main" /\ pollPc' # pollPc) => <<pollPc, pollPc'>> \in PollOrder]_vars
    /\ [](machine = "main" =>
          /\ (writes # <<>> \/ gauges # iterStartGauges) =>
                /\ pollPc \in {"publish", "dump", "sleep"}
                /\ Len(participation_by_range) = Len(ranges)
                /\ \A i \in 1..Len(ranges) :
                     participation_by_range[i].ratio
                       = F32Div(TargetCount(state, ranges[i]),
                                ranges[i].end - ranges[i].start)
          /\ iterOutcome = "ok" =>
                /\ writes = [i \in 1..Len(ranges) |->
                      <<ranges[i].name,
                        F32Div(TargetCount(state, ranges[i]),
                               ranges[i].end - ranges[i].start)>>]
                /\ \A l \in Labels : gauges[l] = LastWriteWins(l))

\* a successful iteration over two ranges with one label: the label holds the
\* second ratio, which differs from the first
C10_Witness ==
    /\ machine = "main"
    /\ iterOutcome = "ok"
    /\ Len(writes) = 2
    /\ writes[1][1] = writes[2][1]
    /\ writes[1][2] # writes[2][2]
    /\ gauges[writes[2][1]] = writes[2][2]

\* C5: a pending scrape request is always eventually answered, whatever the
\* poll task does (it may hang in the fetch or have panicked), and the
\* answer holds the values the registry holds at that moment.
C5_ScrapeAlwaysAnswered ==
    /\ (machine = "main" /\ scrapePc = "pending") ~> (scrapePc = "answered")
    /\ [][(machine = "main" /\ scrapePc = "pending" /\ scrapePc' = "answered")
           => response' = OkResponse(gauges)]_vars

\* the fetch never returned and a scrape was answered with published values
C5_Witness ==
    /\ machine = "main"
    /\ pollPc = "fetch_hung"
    /\ scrapePc = "answered"
    /\ response.body = gauges
    /\ gauges # NoGauges

-----------------------------------------------------------------------------
(* group_target_participation as a function of its arguments *)

\* the variables of the process, at rest while a function is examined
ProcessOff ==
    /\ mainPc = "off"
    /\ cli = [ranges |-> FALSE, ranges_file |-> FALSE, dump |-> FALSE]
    /\ ranges = <<>>
    /\ startErr = "none"
    /\ pollPc = "not_started"
    /\ state_buf = NoBuffer
    /\ state = <<>>
    /\ participation_by_range = <<>>
    /\ pubIdx = 0
    /\ iterOutcome = "running"
    /\ gauges = NoGauges
    /\ iterStartGauges = NoGauges
    /\ writes = <<>>
    /\ scrapePc = "no_server"
    /\ response = NoResponse

processVars == <<mainVars, pollVars, scrapeVars>>

\* flag bytes: none set, target only, source and head without target, all
\* eight bits
AggFlagBytes == {0, 2, 5, 255}

AggRanges == {IndexRange("a", s, e) : s \in 0..MaxIndex, e \in 0..MaxIndex}

\* the flags and the two ranges of the aggregation test of spec section 8
ExampleFlags == <<0, 2, 2, 0, 2, 3, 2, 0, 2, 2>>
ExampleRanges == <<IndexRange("a", 0, 5), IndexRange("b", 5, 10)>>

AggInputs ==
    {[flags |-> f, ranges |-> rs] :
        f \in SeqsUpTo(AggFlagBytes, MaxFlagsLen),
        rs \in SeqsUpTo(AggRanges, MaxRanges)}
    \cup {[flags |-> ExampleFlags, ranges |-> ExampleRanges]}

InitAgg ==
    /\ machine = "agg"
    /\ ProcessOff
    /\ fnPc = "input"
    /\ fnIn \in AggInputs
    /\ fnOut = <<>>

ApplyAggregate ==
    /\ machine = "agg" /\ fnPc = "input"
    /\ fnOut' = group_target_participation(fnIn.ranges, fnIn.flags)
    /\ fnPc' = "done"
    /\ UNCHANGED <<machine, processVars, fnIn>>

NextAgg == ApplyAggregate

AggSpec == InitAgg /\ [][NextAgg]_vars

\* the invalid ranges of spec section 4.4
RangeEmpty(r) == r.start >= r.end
RangeOutOfBounds(flags, r) == r.end > Len(flags)

\* C3 (as claimed): when a supplied range is empty (start >= end) or out of
\* bounds (end > flags.len()), the aggregation returns an error value,
\* RangeError::Empty or RangeError::OutOfBounds: it neither crashes nor
\* returns a report of ratios.
C3_InvalidRangeYieldsRangeError ==
    (machine = "agg" /\ fnPc = "done"
       /\ \E i \in 1..Len(fnIn.ranges) :
            RangeEmpty(fnIn.ranges[i]) \/ RangeOutOfBounds(fnIn.flags, fnIn.ranges[i]))
    => /\ fnOut.kind = "err"
       /\ fnOut.error \in {"Empty", "OutOfBounds"}

\* C4: when every range has start < end <= flags.len(), the aggregation
\* returns one entry per range, in order, with the range's name and bounds;
\* its ratio num/den is in lowest terms the number of flags in [start,end)
\* with bit 1 set over end - start, so 0 <= num <= den and den > 0; each
\* range is computed from the flags alone, whatever the other ranges are.
C4_RatioIsTargetShare ==
    (machine = "agg" /\ fnPc = "done"
       /\ \A i \in 1..Len(fnIn.ranges) :
            ~RangeEmpty(fnIn.ranges[i]) /\ ~RangeOutOfBounds(fnIn.flags, fnIn.ranges[i]))
    => /\ fnOut.kind = "ok"
       /\ Len(fnOut.report) = Len(fnIn.ranges)
       /\ \A i \in 1..Len(fnIn.ranges) :
            LET r == fnIn.ranges[i]
                e == fnOut.report[i]
                count == TargetCount(fnIn.flags, r)
            IN  /\ e.name = r.name /\ e.start = r.start /\ e.end = r.end
                /\ Len(e.ratio) = 2
                /\ e.ratio[2] > 0
                /\ e.ratio[1] <= e.ratio[2]
                /\ e.ratio[1] * (r.end - r.start) = count * e.ratio[2]
                /\ count <= r.end - r.start
       /\ (fnIn.flags = ExampleFlags /\ fnIn.ranges = ExampleRanges) =>
            /\ fnOut.report[1].ratio = <<3, 5>>
            /\ fnOut.report[2].ratio = <<4, 5>>

\* the example of spec section 8 has been aggregated: 3/5 and 4/5
C4_Witness ==
    /\ machine = "agg" /\ fnPc = "done"
    /\ fnIn.flags = ExampleFlags
    /\ fnOut.kind = "ok"
    /\ fnOut.report[1].ratio = <<3, 5>>
    /\ fnOut.report[2].ratio = <<4, 5>>

-----------------------------------------------------------------------------
(* Fork resolver (spec section 4.1): resolve(schedule, epoch) *)

\* greatest activation epoch and queried epoch of the enumerated schedules
MaxEpoch == 4
\* longest enumerated schedule
MaxForks == 3

\* an entry of a ForkSchedule; schemas are named by their number
ForkEntry(epoch, schema) == [activationEpoch |-> epoch, schema |-> schema]

\* the scan: the entry with the greatest activation epoch < epoch, which
\* leaves an epoch equal to an activation epoch with the older schema
RECURSIVE ResolveScan_exclusive(_, _, _, _)
ResolveScan_exclusive(schedule, epoch, i, best) ==
    IF i > Len(schedule) THEN best
    ELSE IF /\ schedule[i].activationEpoch < epoch
            /\ (best = 0 \/ schedule[i].activationEpoch
                              > schedule[best].activationEpoch)
           THEN ResolveScan_exclusive(schedule, epoch, i + 1, i)
           ELSE ResolveScan_exclusive(schedule, epoch, i + 1, best)

\* the scan: the index of the entry with the greatest activation epoch
\* <= epoch among schedule[i..], or `best` (0: none so far)
RECURSIVE ResolveScan(_, _, _, _)
ResolveScan(schedule, epoch, i, best) ==
    IF i > Len(schedule) THEN best
    ELSE IF /\ schedule[i].activationEpoch <= epoch
            /\ (best = 0 \/ schedule[i].activationEpoch
                              > schedule[best].activationEpoch)
           THEN ResolveScan(schedule, epoch, i + 1, i)
           ELSE ResolveScan(schedule, epoch, i + 1, best)

resolve(schedule, epoch) ==
    LET best == ResolveScan(schedule, epoch, 1, 0)
    IN  IF best = 0
          THEN [kind |-> "err", error |-> "NoApplicableFork"]
          ELSE [kind |-> "ok", schema |-> schedule[best].schema]

\* the schedules: strictly increasing activation epochs, schema k-1 at place k
SchedulesOver(epochs) ==
    {[k \in 1..Cardinality(E) |->
        ForkEntry(CHOOSE x \in E : Cardinality({y \in E : y < x}) = k - 1, k - 1)] :
     E \in {E \in SUBSET epochs : Cardinality(E) <= MaxForks}}

\* the schedule and the epochs of the fork boundary test of spec section 8
ExampleSchedule == <<ForkEntry(0, 0), ForkEntry(10, 1), ForkEntry(20, 2)>>
ExampleEpochs == {9, 10, 19, 20}

ResolveInputs ==
    {[schedule |-> sch, epoch |-> ep] :
        sch \in SchedulesOver(0..MaxEpoch), ep \in 0..MaxEpoch}
    \cup {[schedule |-> ExampleSchedule, epoch |-> ep] : ep \in ExampleEpochs}

InitResolve ==
    /\ machine = "resolve"
    /\ ProcessOff
    /\ fnPc = "input"
    /\ fnIn \in ResolveInputs
    /\ fnOut = <<>>

ApplyResolve ==
    /\ machine = "resolve" /\ fnPc = "input"
    /\ fnOut' = resolve(fnIn.schedule, fnIn.epoch)
    /\ fnPc' = "done"
    /\ UNCHANGED <<machine, processVars, fnIn>>

NextResolve == ApplyResolve

ResolveSpec == InitResolve /\ [][NextResolve]_vars

\* the entries of the schedule that apply to the epoch
Applicable(schedule, epoch) ==
    {k \in 1..Len(schedule) : schedule[k].activationEpoch <= epoch}

\* C8: for a strictly increasing schedule and any epoch, resolve returns the
\* schema of the one entry whose activation epoch is the greatest <= epoch,
\* an epoch equal to an activation epoch getting that entry's schema; it
\* fails with NoApplicableFork exactly when the schedule is empty or the
\* epoch is below the first activation epoch.
C8_ResolveGreatestActivation ==
    (machine = "resolve" /\ fnPc = "done") =>
      LET sch == fnIn.schedule
          ep == fnIn.epoch
          top == {k \in Applicable(sch, ep) :
                    \A j \in Applicable(sch, ep) :
                       sch[j].activationEpoch <= sch[k].activationEpoch}
      IN  /\ (fnOut.kind = "err") <=>
                (Len(sch) = 0 \/ ep < sch[1].activationEpoch)
          /\ fnOut.kind = "err" => fnOut.error = "NoApplicableFork"
          /\ fnOut.kind = "ok" =>
                /\ Cardinality(top) = 1
                /\ \A k \in top : fnOut.schema = sch[k].schema
          /\ \A k \in 1..Len(sch) :
                sch[k].activationEpoch = ep =>
                   fnOut.kind = "ok" /\ fnOut.schema = sch[k].schema
          /\ sch = ExampleSchedule =>
                /\ fnOut.kind = "ok"
                /\ fnOut.schema = (IF ep < 10 THEN 0 ELSE IF ep < 20 THEN 1 ELSE 2)

\* epoch 10 of the example schedule resolved to S1: the inclusive boundary
C8_Witness ==
    /\ machine = "resolve" /\ fnPc = "done"
    /\ fnIn.schedule = ExampleSchedule
    /\ fnIn.epoch = 10
    /\ fnOut.kind = "ok"
    /\ fnOut.schema = 1

-----------------------------------------------------------------------------
(* Offset navigator (spec section 4.2): extract(buffer, schema, target) *)

\* longest content of a variable-size field in the enumerated states
MaxPayload == 2

Fixed(name, width) == [name |-> name, kind |-> "Fixed", width |-> width]
Variable(name) == [name |-> name, kind |-> "Variable", width |-> 0]

\* bytes a field takes in the fixed region: its width, or the 4 bytes of the
\* offset of a variable-size field
SlotSize(field) == IF field.kind = "Fixed" THEN field.width ELSE 4

RECURSIVE SlotsBefore(_, _)
\* position of field i in the fixed region: the slots of the fields before
SlotsBefore(schema, i) ==
    IF i <= 1 THEN 0 ELSE SlotSize(schema[i - 1]) + SlotsBefore(schema, i - 1)

FixedRegionLength(schema) == SlotsBefore(schema, Len(schema) + 1)

\* the byte at 0-based index i; outside the buffer there is no byte to read
ByteAt(buffer, i) == IF i < Len(buffer) THEN buffer[i + 1] ELSE 0

\* a 4-byte little-endian unsigned integer at 0-based position pos
ReadU32LE(buffer, pos) ==
    ByteAt(buffer, pos) + 256 * ByteAt(buffer, pos + 1)
    + 65536 * ByteAt(buffer, pos + 2) + 16777216 * ByteAt(buffer, pos + 3)

VariableFields(schema) == {i \in 1..Len(schema) : schema[i].kind = "Variable"}

OffsetOf(buffer, schema, i) == ReadU32LE(buffer, SlotsBefore(schema, i))

\* the next variable-size field after field i, 0 when i is the last one
NextVariable(schema, i) ==
    IF \E j \in VariableFields(schema) : j > i
      THEN CHOOSE j \in VariableFields(schema) :
             j > i /\ \A k \in VariableFields(schema) : k > i => j <= k
      ELSE 0

\* end of the content of variable-size field i: the next offset or the end
\* of the buffer
ContentEnd(buffer, schema, i) ==
    IF NextVariable(schema, i) = 0 THEN Len(buffer)
    ELSE OffsetOf(buffer, schema, NextVariable(schema, i))

\* a validation that does not compare the offsets with the buffer length
OffsetsValid_noUpperBound(buffer, schema) ==
    /\ \A i, j \in VariableFields(schema) :
         i < j => OffsetOf(buffer, schema, i) <= OffsetOf(buffer, schema, j)
    /\ \A i \in VariableFields(schema) :
         OffsetOf(buffer, schema, i) >= FixedRegionLength(schema)

\* step 4: the offsets are non-decreasing in declaration order, each within
\* [fixedRegionLength, buffer.len()]
OffsetsValid(buffer, schema) ==
    /\ \A i, j \in VariableFields(schema) :
         i < j => OffsetOf(buffer, schema, i) <= OffsetOf(buffer, schema, j)
    /\ \A i \in VariableFields(schema) :
         /\ OffsetOf(buffer, schema, i) >= FixedRegionLength(schema)
         /\ OffsetOf(buffer, schema, i) <= Len(buffer)

\* the bytes at 0-based indices lo .. hi-1
Slice(buffer, lo, hi) == [k \in 1..(hi - lo) |-> ByteAt(buffer, lo + k - 1)]

DecodeError(error, reads) == [kind |-> "err", error |-> error, reads |-> reads]

\* the 0-based indices of the offset slots of the variable-size fields
OffsetSlots(schema) ==
    UNION {SlotsBefore(schema, i)..(SlotsBefore(schema, i) + 3) :
           i \in VariableFields(schema)}

\* the result, and the 0-based buffer indices the extraction reads
extract(buffer, schema, target) ==
    LET t == {i \in 1..Len(schema) : schema[i].name = target}
    IN  IF Len(buffer) < FixedRegionLength(schema)
          THEN DecodeError("Truncated", {})
        ELSE IF t = {}
          THEN DecodeError("UnknownField", {})
        ELSE LET i == CHOOSE x \in t : TRUE
                 pos == SlotsBefore(schema, i)
             IN  IF schema[i].kind = "Fixed"
                   THEN [kind |-> "ok",
                         slice |-> Slice(buffer, pos, pos + schema[i].width),
                         reads |-> pos..(pos + schema[i].width - 1)]
                 ELSE LET lo == OffsetOf(buffer, schema, i)
                          hi == ContentEnd(buffer, schema, i)
                      IN  IF ~OffsetsValid(buffer, schema) \/ lo >= hi
                            THEN DecodeError("InvalidOffsets", OffsetSlots(schema))
                            ELSE [kind |-> "ok",
                                  slice |-> Slice(buffer, lo, hi),
                                  reads |-> OffsetSlots(schema) \cup (lo..(hi - 1))]

\* the enumerated schemas: the target last among the variable-size fields,
\* and the target first with a fixed-size field between the two offsets
ExtractSchemas ==
    { <<Fixed("slot", 1), Variable("validators"), Variable("participation")>>,
      <<Variable("participation"), Fixed("slot", 2), Variable("balances")>> }

ExtractTargets == {"participation", "balances", "slot", "unknown"}

U32LE(n) ==
    <<n % 256, (n \div 256) % 256, (n \div 65536) % 256, (n \div 16777216) % 256>>

RECURSIVE Repeat(_, _)
Repeat(byte, n) == IF n <= 0 THEN <<>> ELSE <<byte>> \o Repeat(byte, n - 1)

RECURSIVE FixedRegion(_, _, _)
\* the fixed region of fields i.. : fixed-size fields inline, offsets as u32
FixedRegion(schema, offs, i) ==
    IF i > Len(schema) THEN <<>>
    ELSE (IF schema[i].kind = "Fixed"
            THEN Repeat(7, schema[i].width)
            ELSE U32LE(offs[i]))
         \o FixedRegion(schema, offs, i + 1)

RECURSIVE Contents(_, _, _)
\* the contents of the variable-size fields i.. in declaration order
Contents(schema, lens, i) ==
    IF i > Len(schema) THEN <<>>
    ELSE (IF schema[i].kind = "Variable" THEN Repeat(2, lens[i]) ELSE <<>>)
         \o Contents(schema, lens, i + 1)

RECURSIVE ContentBefore(_, _, _)
ContentBefore(schema, lens, i) ==
    IF i <= 1 THEN 0
    ELSE (IF schema[i - 1].kind = "Variable" THEN lens[i - 1] ELSE 0)
         + ContentBefore(schema, lens, i - 1)

\* the offsets a serializer writes for contents of lengths lens
TrueOffsets(schema, lens) ==
    [i \in VariableFields(schema) |->
        FixedRegionLength(schema) + ContentBefore(schema, lens, i)]

Serialize(schema, offs, lens) ==
    FixedRegion(schema, offs, 1) \o Contents(schema, lens, 1)

\* a valid state, each of its proper prefixes, and the state with one offset
\* overwritten
ExtractBuffers(schema) ==
    UNION {
      LET offs == TrueOffsets(schema, lens)
          full == Serialize(schema, offs, lens)
      IN  {[kind |-> "valid", buffer |-> full, offs |-> offs]}
          \cup {[kind |-> "truncated", buffer |-> SubSeq(full, 1, n), offs |-> offs] :
                  n \in 0..(Len(full) - 1)}
          \cup {[kind |-> "corrupt",
                 buffer |-> Serialize(schema, [offs EXCEPT ![i] = v], lens),
                 offs |-> [offs EXCEPT ![i] = v]] :
                  i \in VariableFields(schema),
                  v \in (0..(Len(full) + 1)) \cup {Len(full) + 256}}
      : lens \in [VariableFields(schema) -> 0..MaxPayload] }

ExtractInputs ==
    UNION {
      {[schema |-> schema, target |-> target, kind |-> b.kind,
        buffer |-> b.buffer, offs |-> b.offs] :
          b \in ExtractBuffers(schema), target \in ExtractTargets}
      : schema \in ExtractSchemas }

InitExtract ==
    /\ machine = "extract"
    /\ ProcessOff
    /\ fnPc = "input"
    /\ fnIn \in ExtractInputs
    /\ fnOut = <<>>

ApplyExtract ==
    /\ machine = "extract" /\ fnPc = "input"
    /\ fnOut' = extract(fnIn.buffer, fnIn.schema, fnIn.target)
    /\ fnPc' = "done"
    /\ UNCHANGED <<machine, processVars, fnIn>>

NextExtract == ApplyExtract

ExtractSpec == InitExtract /\ [][NextExtract]_vars

\* the offsets written in the buffer are non-monotonic, below the fixed
\* region or above the buffer length
BadOffsets(in) ==
    LET vf == VariableFields(in.schema)
    IN  \/ \E i, j \in vf : i < j /\ in.offs[i] > in.offs[j]
        \/ \E i \in vf : in.offs[i] < FixedRegionLength(in.schema)
        \/ \E i \in vf : in.offs[i] > Len(in.buffer)

TargetIsVariable(in) ==
    \E i \in VariableFields(in.schema) : in.schema[i].name = in.target

IsDecodeError(out) ==
    out.kind = "err" /\ out.error \in {"Truncated", "InvalidOffsets"}

=============================================================================
